---- MODULE Spec2Model ----
(***************************************************************************)
(* Model of ExpiringCache<K, V> (src/ExpiringCache.ts): a value map and a  *)
(* timestamp map, the validity predicate has(), set(), the asynchronous    *)
(* get() with its single suspension point at the awaited fetch, and the    *)
(* setInterval sweep armed by the constructor.                             *)
(*                                                                         *)
(* JavaScript runs each synchronous stretch of code to completion, so one  *)
(* action is one such stretch: a whole has(), a whole set(), get() up to   *)
(* its return or its await, get() from the settled await to its return or *)
(* throw, and one whole interval callback.                                 *)
(***************************************************************************)
EXTENDS Integers, FiniteSets, Bags, TLC

\* ---------------------------------------------------------------- bounds
MaxTime == 3        \* Date.now() ranges over 0..MaxTime
MaxCalls == 2       \* get() calls suspended at the await at one time

\* ---------------------------------------------------------------- domains
Keys == {"a", "b"}
Null == "null"
Undefined == "undefined"
Values == {"v1", "v2", Null}   \* values handed to set() and resolved by fetch
Errors == {"e1", "e2"}         \* reasons the fetch delegate rejects with
ExpireTimes == {1, 2}          \* expireTime arguments of the constructor
ClearTimes == {2}              \* clearTime arguments of the constructor

VARIABLES
    now,         \* Date.now()
    expireTime,  \* this.expireTime.inMilliseconds
    clearTime,   \* the period handed to setInterval
    nextSweep,   \* this._clearInterval: earliest time of the next tick
    _data,       \* this._data  : Collection<K, V>
    _timer,      \* this._timer : Collection<K, number>
    calls,       \* bag of get() calls suspended at `await this.fetch(key)`
    fetching,    \* invocations of this.fetch not yet settled, per key
    disposed,    \* the application has let go of the cache
    lastWrite,   \* history: the most recent set() performed on each key
    last         \* history: the operation that led to the current state

vars == <<now, expireTime, clearTime, nextSweep, _data, _timer, calls,
          fetching, disposed, lastWrite, last>>

\* ------------------------------------------------- Map (Collection) helpers
EmptyMap == [x \in {} |-> Undefined]

MapHas(m, k) == k \in DOMAIN m

\* Map.prototype.get: undefined for a key that is not there
MapGet(m, k) == IF k \in DOMAIN m THEN m[k] ELSE Undefined

MapSet(m, k, v) == [x \in (DOMAIN m) \cup {k} |-> IF x = k THEN v ELSE m[x]]

MapDelete(m, k) == [x \in (DOMAIN m) \ {k} |-> m[x]]

\* x == null in JavaScript: true of null and of undefined
IsNullish(x) == x \in {Null, Undefined}

\* ------------------------------------------------------------------- has
\* has with a strict comparison: the boundary instant counts as expired
hasIn_strict(d, t, key) ==
    IF ~MapHas(t, key) THEN FALSE
    ELSE LET value == MapGet(d, key)
             time == t[key]
         IN  ~IsNullish(value) /\ (now - time < expireTime)

\* has that looks at the timestamp only
hasIn_timerOnly(d, t, key) ==
    IF ~MapHas(t, key) THEN FALSE
    ELSE now - t[key] <= expireTime

\* has that never expires an entry
hasIn_noExpiry(d, t, key) ==
    IF ~MapHas(t, key) THEN FALSE
    ELSE ~IsNullish(MapGet(d, key))

\* has(key) evaluated on stores d (values) and t (timestamps).  The timestamp
\* store only ever holds Date.now() results, so `time != null` is true once
\* _timer.has(key) has passed.
hasIn(d, t, key) ==
    IF ~MapHas(t, key) THEN FALSE
    ELSE LET value == MapGet(d, key)
             time == t[key]
         IN  ~IsNullish(value) /\ (now - time <= expireTime)

has(key) == hasIn(_data, _timer, key)

\* ------------------------------------------------------------------- set
\* set that refreshes the timestamp of every key
set_touchAll(key, val) ==
    /\ _timer' = [x \in (DOMAIN _timer) \cup {key} |-> now]
    /\ _data' = MapSet(_data, key, val)

\* set that keeps the timestamp of an entry that is already there
set_keepStamp(key, val) ==
    /\ _timer' = IF MapHas(_timer, key) THEN _timer ELSE MapSet(_timer, key, now)
    /\ _data' = MapSet(_data, key, val)

\* set(key, val): both maps written in one synchronous step
set(key, val) ==
    /\ _timer' = MapSet(_timer, key, now)
    /\ _data' = MapSet(_data, key, val)

NoWrite == [val |-> "-", time |-> -1, byFetch |-> FALSE]

Written(k) == lastWrite[k].time >= 0

\* ------------------------------------------------------------------ Init
\* last.val is what the operation was given (the value to set, the value or
\* reason the fetch settled with); last.ret is what it returned or threw
NoOp == [op |-> "new", key |-> "-", val |-> "-", ret |-> "-"]

Init ==
    /\ now = 0
    /\ expireTime \in ExpireTimes
    /\ clearTime \in ClearTimes
    /\ nextSweep = clearTime
    /\ _data = EmptyMap
    /\ _timer = EmptyMap
    /\ calls = EmptyBag
    /\ fetching = [k \in Keys |-> 0]
    /\ disposed = FALSE
    /\ lastWrite = [k \in Keys |-> NoWrite]
    /\ last = NoOp

\* --------------------------------------------------------------- actions
\* the clock: Date.now() never goes back
Tick ==
    /\ now < MaxTime
    /\ now' = now + 1
    /\ last' = [NoOp EXCEPT !.op = "tick"]
    /\ UNCHANGED <<disposed, expireTime, clearTime, nextSweep, _data, _timer, calls,
                   fetching, lastWrite>>

\* a caller's cache.set(key, val); `return this`
Set(key, val) ==
    /\ set(key, val)
    /\ lastWrite' = [lastWrite EXCEPT ![key] =
                        [val |-> val, time |-> now, byFetch |-> FALSE]]
    /\ last' = [op |-> "set", key |-> key, val |-> val, ret |-> "this"]
    /\ UNCHANGED <<disposed, now, expireTime, clearTime, nextSweep, calls, fetching>>

\* has that evicts the stale entry it finds
Has_lazyEvict(key) ==
    /\ last' = [op |-> "has", key |-> key, val |-> "-",
                ret |-> IF has(key) THEN "true" ELSE "false"]
    /\ _data' = IF has(key) THEN _data ELSE MapDelete(_data, key)
    /\ _timer' = IF has(key) THEN _timer ELSE MapDelete(_timer, key)
    /\ UNCHANGED <<disposed, now, expireTime, clearTime, nextSweep, calls,
                   fetching, lastWrite>>

\* a caller's cache.has(key)
Has(key) ==
    /\ last' = [op |-> "has", key |-> key, val |-> "-",
                ret |-> IF has(key) THEN "true" ELSE "false"]
    /\ UNCHANGED <<disposed, now, expireTime, clearTime, nextSweep, _data, _timer, calls,
                   fetching, lastWrite>>

\* ------------------------------------------------------------------- get
\* the frame of a get(key) suspended at the await; fetches counts the
\* invocations of this.fetch the call has made
Call(key) == [key |-> key, fetches |-> 1]

Suspend(c) == calls (+) SetToBag({c})

Finish(c) == calls (-) SetToBag({c})

Awaiting(key) == {c \in BagToSet(calls) : c.key = key}

\* number of get(key) calls suspended at the await
NumAwaiting(key) == BagCardinality([c \in Awaiting(key) |-> calls[c]])

\* get that goes to the fetch delegate even when the entry is valid
getCall_alwaysFetch(key) ==
    /\ BagCardinality(calls) < MaxCalls
    /\ calls' = Suspend(Call(key))
    /\ fetching' = [fetching EXCEPT ![key] = @ + 1]
    /\ last' = [op |-> "fetch", key |-> key, val |-> "-", ret |-> "-"]

\* get that joins a fetch already in flight for the key (single flight)
getCall_singleFlight(key) ==
    IF has(key)
    THEN /\ last' = [op |-> "get", key |-> key, val |-> "-",
                     ret |-> MapGet(_data, key)]
         /\ UNCHANGED <<calls, fetching>>
    ELSE /\ BagCardinality(calls) < MaxCalls
         /\ calls' = Suspend(Call(key))
         /\ fetching' = IF fetching[key] > 0 THEN fetching
                        ELSE [fetching EXCEPT ![key] = @ + 1]
         /\ last' = [op |-> "fetch", key |-> key, val |-> "-", ret |-> "-"]

\* get(key) up to its return or its await: a valid entry is returned at once;
\* otherwise this.fetch(key) is invoked and the call suspends
getCall(key) ==
    IF has(key)
    THEN /\ last' = [op |-> "get", key |-> key, val |-> "-",
                     ret |-> MapGet(_data, key)]
         /\ UNCHANGED <<calls, fetching>>
    ELSE /\ BagCardinality(calls) < MaxCalls
         /\ calls' = Suspend(Call(key))
         /\ fetching' = [fetching EXCEPT ![key] = @ + 1]
         /\ last' = [op |-> "fetch", key |-> key, val |-> "-", ret |-> "-"]

\* resumption that leaves alone an entry that became valid during the fetch
getResume_keepValid(c, val) ==
    /\ IF has(c.key) THEN UNCHANGED <<_timer, _data>> ELSE set(c.key, val)
    /\ calls' = Finish(c)
    /\ last' = [op |-> "resolve", key |-> c.key, val |-> val, ret |-> val]

\* resumption that refreshes the value but not the timestamp
getResume_keepStamp(c, val) ==
    /\ set_keepStamp(c.key, val)
    /\ calls' = Finish(c)
    /\ last' = [op |-> "resolve", key |-> c.key, val |-> val, ret |-> val]

\* get(key) after the await, the fetch having resolved with val:
\* this.set(key, val); return val
getResume(c, val) ==
    /\ set(c.key, val)
    /\ calls' = Finish(c)
    /\ last' = [op |-> "resolve", key |-> c.key, val |-> val, ret |-> val]

\* failure path that refreshes the timestamp of the key
getThrow_touch(c, e) ==
    /\ calls' = Finish(c)
    /\ _timer' = IF MapHas(_timer, c.key) THEN MapSet(_timer, c.key, now)
                 ELSE _timer
    /\ UNCHANGED _data
    /\ last' = [op |-> "reject", key |-> c.key, val |-> e, ret |-> e]

\* failure path that drops the entry of the key
getThrow_evict(c, e) ==
    /\ calls' = Finish(c)
    /\ _data' = MapDelete(_data, c.key)
    /\ _timer' = MapDelete(_timer, c.key)
    /\ last' = [op |-> "reject", key |-> c.key, val |-> e, ret |-> e]

\* get(key) after the await, the fetch having rejected with e:
\* catch (e) { throw e; }
getThrow(c, e) ==
    /\ calls' = Finish(c)
    /\ UNCHANGED <<_data, _timer>>
    /\ last' = [op |-> "reject", key |-> c.key, val |-> e, ret |-> e]

\* a caller's cache.get(key)
Get(key) ==
    /\ getCall(key)
    /\ UNCHANGED <<disposed, now, expireTime, clearTime, nextSweep, _data, _timer,
                   lastWrite>>

\* the fetch of the suspended call c resolves with val; the call resumes and
\* runs to its return
FetchResolve(c, val) ==
    /\ c \in BagToSet(calls)
    /\ getResume(c, val)
    /\ fetching' = [fetching EXCEPT ![c.key] = @ - 1]
    /\ lastWrite' = [lastWrite EXCEPT ![c.key] =
                        [val |-> val, time |-> now, byFetch |-> TRUE]]
    /\ UNCHANGED <<disposed, now, expireTime, clearTime, nextSweep>>

\* the fetch of the suspended call c rejects with e; the call resumes and
\* runs to its throw
FetchReject(c, e) ==
    /\ c \in BagToSet(calls)
    /\ getThrow(c, e)
    /\ fetching' = [fetching EXCEPT ![c.key] = @ - 1]
    /\ UNCHANGED <<disposed, now, expireTime, clearTime, nextSweep, lastWrite>>

\* ---------------------------------------------------------------- aliases
\* validity as the Collection-subclass variant computes it: the timestamp alone
hasValid_timerOnly(key) ==
    IF ~MapHas(_timer, key) THEN FALSE
    ELSE now - _timer[key] <= expireTime

\* hasValid(key) { return this.has(key); }
hasValid(key) == has(key)

\* getEntry with the validity test of the Collection-subclass variant
getEntryCall_timerOnly(key) ==
    IF hasValid_timerOnly(key)
    THEN /\ last' = [op |-> "get", key |-> key, val |-> "-",
                     ret |-> MapGet(_data, key)]
         /\ UNCHANGED <<calls, fetching>>
    ELSE /\ BagCardinality(calls) < MaxCalls
         /\ calls' = Suspend(Call(key))
         /\ fetching' = [fetching EXCEPT ![key] = @ + 1]
         /\ last' = [op |-> "fetch", key |-> key, val |-> "-", ret |-> "-"]

\* async getEntry(key) { return this.get(key); }
getEntryCall(key) == getCall(key)

\* a caller's cache.hasValid(key)
HasValid(key) ==
    /\ last' = [op |-> "has", key |-> key, val |-> "-",
                ret |-> IF hasValid(key) THEN "true" ELSE "false"]
    /\ UNCHANGED <<disposed, now, expireTime, clearTime, nextSweep, _data,
                   _timer, calls, fetching, lastWrite>>

\* a caller's cache.getEntry(key)
GetEntry(key) ==
    /\ getEntryCall(key)
    /\ UNCHANGED <<disposed, now, expireTime, clearTime, nextSweep, _data,
                   _timer, lastWrite>>

\* ----------------------------------------------------------------- sweep
\* loop body that forgets the timestamp store
sweepKey_dataOnly(d, t, key) ==
    IF ~hasIn(d, t, key) THEN <<MapDelete(d, key), t>> ELSE <<d, t>>

\* loop body that forgets the value store
sweepKey_timerOnly(d, t, key) ==
    IF ~hasIn(d, t, key) THEN <<d, MapDelete(t, key)>> ELSE <<d, t>>

\* loop body that spares an entry for one more time unit
sweepKey_grace(d, t, key) ==
    IF MapHas(t, key) /\ now - t[key] <= expireTime + 1
    THEN <<d, t>>
    ELSE <<MapDelete(d, key), MapDelete(t, key)>>

\* body of the interval callback's loop, for one key
sweepKey(d, t, key) ==
    IF ~hasIn(d, t, key)
    THEN <<MapDelete(d, key), MapDelete(t, key)>>
    ELSE <<d, t>>

RECURSIVE sweepLoop(_, _, _)
\* for (const key of this._data.keys()) { ... }
sweepLoop(keys, d, t) ==
    IF keys = {} THEN <<d, t>>
    ELSE LET key == CHOOSE x \in keys : TRUE
             r == sweepKey(d, t, key)
         IN  sweepLoop(keys \ {key}, r[1], r[2])

\* one tick of the interval armed by the constructor; it never comes before
\* clearTime has passed since the previous one
Sweep ==
    /\ now >= nextSweep
    /\ LET r == sweepLoop(DOMAIN _data, _data, _timer)
       IN  /\ _data' = r[1]
           /\ _timer' = r[2]
    /\ nextSweep' = now + clearTime
    /\ last' = [NoOp EXCEPT !.op = "sweep"]
    /\ UNCHANGED <<disposed, now, expireTime, clearTime, calls, fetching, lastWrite>>

\* ------------------------------------------------------------------ Next
Next ==
    \/ Tick
    \/ \E key \in Keys, val \in Values : Set(key, val)
    \/ \E key \in Keys : Has(key)
    \/ \E key \in Keys : Get(key)
    \/ \E key \in Keys : HasValid(key)
    \/ \E key \in Keys : GetEntry(key)
    \/ \E c \in BagToSet(calls), val \in Values : FetchResolve(c, val)
    \/ \E c \in BagToSet(calls), e \in Errors : FetchReject(c, e)
    \/ Sweep

Spec == Init /\ [][Next]_vars

TypeOK ==
    /\ now \in 0..MaxTime
    /\ DOMAIN _data \subseteq Keys
    /\ DOMAIN _timer \subseteq Keys
    /\ \A k \in DOMAIN _data : _data[k] \in Values
    /\ \A k \in DOMAIN _timer : _timer[k] \in 0..now
    /\ BagCardinality(calls) <= MaxCalls

\* ------------------------------------------------------------- disposal
\* the application lets go of the cache.  The class has no operation that
\* clears this._clearInterval, so this is all a caller can do
Discard ==
    /\ ~disposed
    /\ disposed' = TRUE
    /\ last' = [NoOp EXCEPT !.op = "discard"]
    /\ UNCHANGED <<now, expireTime, clearTime, nextSweep, _data, _timer, calls,
                   fetching, lastWrite>>

\* once the cache is let go, only the clock, the timer and the fetches in
\* flight act on it
NextDisposal ==
    \/ Discard
    \/ /\ Next
       /\ disposed => last'.op \in {"tick", "sweep", "resolve", "reject"}

SpecDisposal == Init /\ [][NextDisposal]_vars

\* --------------------------------------------------------- punctual timer
\* the interval callback runs as soon as it is due: the clock does not pass
\* the time of a tick that has not run
NextTimed == Next /\ (now' # now => now < nextSweep)

TimedClearTimes == {1, 2}      \* clearTime arguments of the constructor

InitTimed ==
    /\ now = 0
    /\ expireTime \in ExpireTimes
    /\ clearTime \in TimedClearTimes
    /\ nextSweep = clearTime
    /\ _data = EmptyMap
    /\ _timer = EmptyMap
    /\ calls = EmptyBag
    /\ fetching = [k \in Keys |-> 0]
    /\ disposed = FALSE
    /\ lastWrite = [k \in Keys |-> NoWrite]
    /\ last = NoOp

SpecTimed == InitTimed /\ [][NextTimed]_vars

\* ------------------------------------------------------- arbitrary stores
PartialMaps(D, R) == UNION {[S -> R] : S \in SUBSET D}

\* any contents of the two stores, consistent or not
InitAny ==
    /\ now \in 0..MaxTime
    /\ expireTime \in ExpireTimes
    /\ clearTime \in ClearTimes
    /\ nextSweep = now + clearTime
    /\ _data \in PartialMaps(Keys, Values)
    /\ _timer \in PartialMaps(Keys, 0..now)
    /\ calls = EmptyBag
    /\ fetching = [k \in Keys |-> 0]
    /\ disposed = FALSE
    /\ lastWrite = [k \in Keys |-> NoWrite]
    /\ last = NoOp

NextAny ==
    \/ Tick
    \/ \E key \in Keys : Has(key)
    \/ \E key \in Keys : Get(key)
    \/ \E c \in BagToSet(calls), e \in Errors : FetchReject(c, e)

SpecAny == InitAny /\ [][NextAny]_vars

\* ------------------------------------------- the Collection-subclass variant
\* src/ExpiringCache.js: the cache is itself the value collection (_data here)
\* and inherits its methods, delete among them; _timer is a second collection

\* hasValid(key): the timestamp alone decides
legacyHasValid(key) ==
    IF ~MapHas(_timer, key) THEN FALSE
    ELSE now - _timer[key] <= expireTime

\* set(key, val) { this._timer.set(key, Date.now()); return super.set(key, val); }
LegacySet(key, val) ==
    /\ _timer' = MapSet(_timer, key, now)
    /\ _data' = MapSet(_data, key, val)
    /\ last' = [op |-> "set", key |-> key, val |-> val, ret |-> "this"]
    /\ UNCHANGED <<disposed, now, expireTime, clearTime, nextSweep, calls,
                   fetching, lastWrite>>

\* getEntry(key) up to its return or its await
LegacyGetEntry(key) ==
    /\ IF legacyHasValid(key)
       THEN /\ last' = [op |-> "get", key |-> key, val |-> "-",
                        ret |-> MapGet(_data, key)]
            /\ UNCHANGED <<calls, fetching>>
       ELSE /\ BagCardinality(calls) < MaxCalls
            /\ calls' = Suspend(Call(key))
            /\ fetching' = [fetching EXCEPT ![key] = @ + 1]
            /\ last' = [op |-> "fetch", key |-> key, val |-> "-", ret |-> "-"]
    /\ UNCHANGED <<disposed, now, expireTime, clearTime, nextSweep, _data,
                   _timer, lastWrite>>

\* getEntry(key) after the await, resolved: this.set(key, val); return val
LegacyResolve(c, val) ==
    /\ c \in BagToSet(calls)
    /\ _timer' = MapSet(_timer, c.key, now)
    /\ _data' = MapSet(_data, c.key, val)
    /\ calls' = Finish(c)
    /\ fetching' = [fetching EXCEPT ![c.key] = @ - 1]
    /\ last' = [op |-> "resolve", key |-> c.key, val |-> val, ret |-> val]
    /\ UNCHANGED <<disposed, now, expireTime, clearTime, nextSweep, lastWrite>>

\* getEntry(key) after the await, rejected: catch (e) { throw e; }
LegacyReject(c, e) ==
    /\ c \in BagToSet(calls)
    /\ calls' = Finish(c)
    /\ fetching' = [fetching EXCEPT ![c.key] = @ - 1]
    /\ last' = [op |-> "reject", key |-> c.key, val |-> e, ret |-> e]
    /\ UNCHANGED <<disposed, now, expireTime, clearTime, nextSweep, _data,
                   _timer, lastWrite>>

\* the inherited delete(key): it knows nothing of _timer
LegacyDelete(key) ==
    /\ _data' = MapDelete(_data, key)
    /\ last' = [op |-> "delete", key |-> key, val |-> "-",
                ret |-> IF MapHas(_data, key) THEN "true" ELSE "false"]
    /\ UNCHANGED <<disposed, now, expireTime, clearTime, nextSweep, _timer,
                   calls, fetching, lastWrite>>

RECURSIVE legacySweepLoop(_, _)
\* for (const key of this.keys()) { if (!this.hasValid(key)) this.delete(key); }
legacySweepLoop(keys, d) ==
    IF keys = {} THEN d
    ELSE LET key == CHOOSE x \in keys : TRUE
         IN  legacySweepLoop(keys \ {key},
                             IF ~legacyHasValid(key) THEN MapDelete(d, key)
                             ELSE d)

\* one tick of the interval of the constructor
LegacySweep ==
    /\ now >= nextSweep
    /\ _data' = legacySweepLoop(DOMAIN _data, _data)
    /\ nextSweep' = now + clearTime
    /\ last' = [NoOp EXCEPT !.op = "sweep"]
    /\ UNCHANGED <<disposed, now, expireTime, clearTime, _timer, calls,
                   fetching, lastWrite>>

NextLegacy ==
    \/ Tick
    \/ \E key \in Keys, val \in Values : LegacySet(key, val)
    \/ \E key \in Keys : LegacyGetEntry(key)
    \/ \E c \in BagToSet(calls), val \in Values : LegacyResolve(c, val)
    \/ \E c \in BagToSet(calls), e \in Errors : LegacyReject(c, e)
    \/ \E key \in Keys : LegacyDelete(key)
    \/ LegacySweep

SpecLegacy == Init /\ [][NextLegacy]_vars

\* ================================================================ claims
Present(k) == MapHas(_data, k) \/ MapHas(_timer, k)

\* the step just taken was a get(k) call (a hit, or a miss that suspended)
GetStep(k) == last'.op \in {"get", "fetch"} /\ last'.key = k

\* C1: validity window.  A key whose most recent set (explicit, or by a
\* completed fetch) stored a non-null value at time t0 has has(k) true at every
\* time up to and including t0 + expireTime, and false at every later time,
\* whatever sweeps and operations on other keys happened since.
C1_ValidityWindow ==
    \A k \in Keys :
        (Written(k) /\ ~IsNullish(lastWrite[k].val))
            => (has(k) <=> now <= lastWrite[k].time + expireTime)

\* a sweep has just run at the last valid instant of an entry, which is still
\* valid, while the other key has expired
C1_Witness ==
    /\ last.op = "sweep"
    /\ \E k \in Keys :
        /\ Written(k) /\ ~IsNullish(lastWrite[k].val)
        /\ now = lastWrite[k].time + expireTime
        /\ has(k)
        /\ \E k2 \in Keys \ {k} :
            /\ Written(k2) /\ ~IsNullish(lastWrite[k2].val)
            /\ now > lastWrite[k2].time + expireTime
            /\ ~has(k2)

\* C2: bounded staleness.  A value that get(k) returns without going to the
\* fetch delegate is the value of the most recent set on k, and that set is
\* at most expireTime old at the return.
C2_BoundedStaleness ==
    last.op = "get" =>
        /\ Written(last.key)
        /\ last.ret = lastWrite[last.key].val
        /\ now - lastWrite[last.key].time <= expireTime

\* get served a value that a fetch had stored exactly expireTime earlier
C2_Witness ==
    /\ last.op = "get"
    /\ lastWrite[last.key].byFetch
    /\ last.ret = lastWrite[last.key].val
    /\ now - lastWrite[last.key].time = expireTime

\* C3: hit path.  A get(k) called while has(k) is true returns the stored
\* value in that same step: it does not invoke fetch and does not suspend.
C3_HitPath ==
    [][\A k \in Keys :
          (has(k) /\ GetStep(k)) =>
              /\ last'.op = "get"
              /\ last'.ret = MapGet(_data, k)
              /\ calls' = calls
              /\ fetching' = fetching
              /\ _data' = _data /\ _timer' = _timer]_vars

\* get hit on one key while a get on the same key, issued before the entry
\* was written, is still suspended
C3_Witness ==
    /\ last.op = "get"
    /\ last.ret \in {"v1", "v2"}
    /\ NumAwaiting(last.key) > 0

\* C4: miss path.  A get(k) called while has(k) is false invokes fetch(k) once
\* and suspends; when its fetch resolves with r the call stores r under k
\* stamped with the time of the resolution and returns r, without a further
\* fetch, so the stored value equals the returned one at that instant.
C4_MissPath ==
    [][/\ \A k \in Keys :
            (~has(k) /\ GetStep(k)) =>
                /\ last'.op = "fetch"
                /\ fetching'[k] = fetching[k] + 1
                /\ calls' = calls (+) SetToBag({[key |-> k, fetches |-> 1]})
       /\ last'.op = "resolve" =>
            /\ MapHas(_data', last'.key)
            /\ _data'[last'.key] = last'.val
            /\ last'.ret = last'.val
            /\ MapHas(_timer', last'.key)
            /\ _timer'[last'.key] = now'
            /\ \E c \in Awaiting(last'.key) :
                  c.fetches = 1 /\ calls' = calls (-) SetToBag({c})
            /\ fetching'[last'.key] = fetching[last'.key] - 1]_vars

\* a fetch has resolved, later than time 0, for a key whose entry is now
\* stamped with the current time and holds the returned value
C4_Witness ==
    /\ last.op = "resolve"
    /\ now > 0
    /\ MapHas(_timer, last.key) /\ _timer[last.key] = now
    /\ MapGet(_data, last.key) = last.ret
    /\ last.ret \in {"v1", "v2"}

\* C5: no refetch after a successful miss.  When the most recent write on k
\* is the set of a get(k) whose fetch resolved (with any value, null included)
\* and is at most expireTime old, a get(k) does not invoke fetch.
C5_NoRefetchAfterMiss ==
    last.op = "fetch" =>
        ~(/\ lastWrite[last.key].byFetch
          /\ now - lastWrite[last.key].time <= expireTime)

\* C6: failure leaves no trace.  When the fetch of a get(k) rejects, the call
\* throws the very reason of the rejection, invokes no further fetch, and
\* writes nothing: both stores are as before, and has(k) stays false if it
\* was false.
C6_FailureNoTrace ==
    [][last'.op = "reject" =>
          /\ last'.val \in Errors
          /\ last'.ret = last'.val
          /\ _data' = _data
          /\ _timer' = _timer
          /\ \E c \in Awaiting(last'.key) : calls' = calls (-) SetToBag({c})
          /\ fetching'[last'.key] = fetching[last'.key] - 1
          /\ \A k \in Keys : has(k)' = has(k)]_vars

\* a get has failed for a key whose stale entry is still in both stores
C6_Witness ==
    /\ last.op = "reject"
    /\ MapHas(_data, last.key) /\ MapHas(_timer, last.key)
    /\ ~IsNullish(_data[last.key])
    /\ ~has(last.key)

\* C7: no single flight.  The fetch invocations in flight for k are as many
\* as the get(k) calls suspended on k, each of which has invoked fetch once.
C7_NoSingleFlight ==
    /\ \A k \in Keys : fetching[k] = NumAwaiting(k)
    /\ \A c \in BagToSet(calls) : c.fetches = 1

\* two get calls on one key are suspended, with two fetches in flight
C7_Witness ==
    \E k \in Keys : NumAwaiting(k) = 2 /\ fetching[k] = 2 /\ ~has(k)

\* C8: last write wins.  Once no get(k) is suspended, the entry of k holds the
\* value and the timestamp of the write performed last on k, an explicit set
\* or a fetch completion; it is missing only if that write is no longer valid
\* (the sweep may then have evicted it).
C8_LastWriteWins ==
    \A k \in Keys :
        (Written(k) /\ NumAwaiting(k) = 0) =>
            IF Present(k)
            THEN /\ MapHas(_data, k) /\ MapHas(_timer, k)
                 /\ _data[k] = lastWrite[k].val
                 /\ _timer[k] = lastWrite[k].time
            ELSE \/ IsNullish(lastWrite[k].val)
                 \/ now - lastWrite[k].time > expireTime

\* a fetch has just resolved as the last of the calls on its key, and the
\* entry holds its result and its time
C8_Witness ==
    /\ last.op = "resolve"
    /\ NumAwaiting(last.key) = 0
    /\ lastWrite[last.key].byFetch
    /\ MapHas(_data, last.key) /\ _data[last.key] = last.val
    /\ MapHas(_timer, last.key) /\ _timer[last.key] = now
    /\ now > 0

\* C9: set.  set(k, v) in any state stores v under k stamped with the current
\* time (age 0), in the one step, without invoking fetch or touching the
\* suspended calls, and returns the cache itself.
C9_SetOverwrites ==
    [][last'.op = "set" =>
          /\ MapHas(_data', last'.key) /\ _data'[last'.key] = last'.val
          /\ MapHas(_timer', last'.key) /\ _timer'[last'.key] = now
          /\ now' = now
          /\ last'.ret = "this"
          /\ calls' = calls
          /\ fetching' = fetching]_vars

\* set has just overwritten, at a later time, the entry of a key on which a
\* get is suspended
C9_Witness ==
    /\ last.op = "set"
    /\ now > 0
    /\ _timer[last.key] = now
    /\ _data[last.key] = last.val
    /\ NumAwaiting(last.key) > 0

\* C10: sweep completeness.  Right after a sweeper tick every key left in
\* either store is valid as of the tick time: the keys that failed the
\* validity check are gone from both stores.
C10_SweepCompleteness ==
    last.op = "sweep" =>
        \A k \in Keys : Present(k) => (MapHas(_data, k) /\ MapHas(_timer, k) /\ has(k))

\* a sweep has just evicted an expired key and kept a valid one
C10_Witness ==
    /\ last.op = "sweep"
    /\ \E k \in Keys :
        /\ Written(k) /\ ~IsNullish(lastWrite[k].val) /\ ~Present(k)
        /\ \E k2 \in Keys \ {k} : Present(k2) /\ has(k2)

\* C11: the sweep removes only stale entries.  A sweeper tick leaves every
\* entry whose age is at most expireTime at the tick untouched (same value,
\* same timestamp, same has() result), adds no key and invokes no fetch.
C11_SweepOnlyStale ==
    [][last'.op = "sweep" =>
          /\ \A k \in DOMAIN _timer :
                (now - _timer[k] <= expireTime) =>
                    /\ MapHas(_timer', k) /\ _timer'[k] = _timer[k]
                    /\ MapGet(_data', k) = MapGet(_data, k)
                    /\ MapHas(_data', k) = MapHas(_data, k)
                    /\ has(k)' = has(k)
          /\ DOMAIN _data' \subseteq DOMAIN _data
          /\ DOMAIN _timer' \subseteq DOMAIN _timer
          /\ fetching' = fetching
          /\ calls' = calls]_vars

\* C12: disposal.  Once the application has disposed of the cache, no
\* further sweeper tick occurs.
C12_Disposal == [][disposed => last'.op # "sweep"]_vars

\* C13: aliases.  From every state and for every key, a step is an outcome
\* of getEntry(k) exactly when it is an outcome of get(k) (same fetch
\* invocations, same stores, same result), and an outcome of hasValid(k)
\* exactly when it is an outcome of has(k).
C13_Aliases ==
    [][\A k \in Keys :
          /\ GetEntry(k) <=> Get(k)
          /\ HasValid(k) <=> Has(k)]_vars

\* a call has gone to the fetch delegate for a key that holds a young entry
\* with a null value: the state on which a validity test by the timestamp
\* alone would have answered from the store
C13_Witness ==
    /\ last.op = "fetch"
    /\ MapHas(_data, last.key) /\ IsNullish(_data[last.key])
    /\ MapHas(_timer, last.key) /\ now - _timer[last.key] <= expireTime

\* C14: lockstep.  In every reachable state the two stores hold the same keys.
C14_Lockstep == DOMAIN _data = DOMAIN _timer

\* a fetch has resolved after a sweep evicted the other key: one key is in
\* both stores, the other in neither
C14_Witness ==
    /\ last.op = "resolve"
    /\ MapHas(_data, last.key) /\ MapHas(_timer, last.key)
    /\ \E k \in Keys \ {last.key} :
          Written(k) /\ ~MapHas(_data, k) /\ ~MapHas(_timer, k)

\* C15: eventual eviction.  With a timer that ticks when due, the next tick is
\* never more than clearTime away, and an entry still in the stores has been
\* stale for less than clearTime: the tick that follows its expiry removes it.
C15_EvictionDeadline ==
    /\ now <= nextSweep
    /\ nextSweep <= now + clearTime
    /\ \A k \in DOMAIN _data \cup DOMAIN _timer :
          /\ MapHas(_timer, k)
          /\ (now - _timer[k] > expireTime) =>
                 now - (_timer[k] + expireTime + 1) < clearTime

\* a tick has just evicted a non-null entry at the last instant the deadline
\* allows
C15_Witness ==
    /\ last.op = "sweep"
    /\ \E k \in Keys :
          /\ Written(k) /\ ~IsNullish(lastWrite[k].val)
          /\ ~Present(k)
          /\ now - (lastWrite[k].time + expireTime + 1) = clearTime - 1

Inconsistent(k) == MapHas(_timer, k) # MapHas(_data, k)

\* C16: defensive validity check.  Whatever the stores hold, has(k) is false
\* for a key that is in one store and not in the other, and get(k) on such a
\* key goes to the fetch delegate.
C16_Defensive ==
    /\ \A k \in Keys : Inconsistent(k) => ~has(k)
    /\ (last.op = "has" /\ Inconsistent(last.key)) => last.ret = "false"
    /\ last.op = "get" => ~Inconsistent(last.key)

\* get has gone to the fetch delegate for a key with a young timestamp and no
\* value
C16_Witness ==
    /\ last.op = "fetch"
    /\ MapHas(_timer, last.key) /\ ~MapHas(_data, last.key)
    /\ now - _timer[last.key] <= expireTime

\* C17: lockstep of the Collection-subclass variant.  After any sequence of
\* set, getEntry, delete and sweeper ticks a key has a timestamp exactly when
\* it has a value, and hasValid(k) is never true for a key without a value.
C17_LegacyLockstep ==
    \A k \in Keys :
        /\ MapHas(_timer, k) <=> MapHas(_data, k)
        /\ legacyHasValid(k) => MapHas(_data, k)

\* C18: validity only rises through a write.  has(k) turns from false to true
\* only in a step that is a set on k, explicit or at the success of a fetch
\* for k; every other step leaves it unchanged or turns it to false.
C18_ValidityRises ==
    [][\A k \in Keys :
          (~has(k) /\ has(k)') =>
              (last'.op \in {"set", "resolve"} /\ last'.key = k)]_vars

\* a set has just made its key valid while the other key holds a non-null
\* entry that the clock has turned invalid
C18_Witness ==
    /\ last.op = "set"
    /\ has(last.key)
    /\ \E k \in Keys \ {last.key} :
          MapHas(_data, k) /\ ~IsNullish(_data[k]) /\ ~has(k)

\* C19: reads do not refresh or evict.  has, hasValid and a get or getEntry
\* that hits leave both stores as they are, and a key leaves the stores only
\* in a sweeper tick.
C19_ReadsFrame ==
    [][/\ last'.op \in {"has", "get"} => (_data' = _data /\ _timer' = _timer)
       /\ \A k \in Keys :
             (Present(k) /\ ~(Present(k)')) => last'.op = "sweep"]_vars

\* has has just answered false for a stale non-null entry, which is still in
\* both stores
C19_Witness ==
    /\ last.op = "has"
    /\ last.ret = "false"
    /\ MapHas(_data, last.key) /\ MapHas(_timer, last.key)
    /\ ~IsNullish(_data[last.key])

\* C20: per-key isolation.  A set(k, v) and the completion of a get(k), by
\* success or by failure, leave the value, the timestamp and the has() result
\* of every other key as they were.
C20_Isolation ==
    [][last'.op \in {"set", "resolve", "reject"} =>
          \A k \in Keys \ {last'.key} :
              /\ MapHas(_data', k) = MapHas(_data, k)
              /\ MapGet(_data', k) = MapGet(_data, k)
              /\ MapHas(_timer', k) = MapHas(_timer, k)
              /\ MapHas(_timer, k) => _timer'[k] = _timer[k]
              /\ has(k)' = has(k)]_vars

\* a get has completed on one key while a get on the other key, whose entry
\* is valid, is still suspended
C20_Witness ==
    /\ last.op \in {"resolve", "reject"}
    /\ \E k \in Keys \ {last.key} :
          NumAwaiting(k) > 0 /\ has(k) /\ now > _timer[k]
====
